---- MODULE Spec2Model ----
(***************************************************************************)
(* Model of the MP3-Synch-Rip repository.                                  *)
(*                                                                         *)
(* Spec models one or more runs of synchToMP3.py's main(): device          *)
(* discovery, the scan of source and device, the plan, the confirmation   *)
(* prompt, sync_files, remove_orphans and the final summary.  A file       *)
(* system is a mapping from relative paths (tuples of path parts, as       *)
(* pathlib keeps them) to byte sizes; sizes are the only file content the  *)
(* program ever looks at.                                                  *)
(*                                                                         *)
(* SpecFind calls find_y1_device on bounded /media trees, SpecEnum calls   *)
(* get_source_mp3s and get_device_mp3s on directory trees with all their   *)
(* entries, and SpecRip runs download_all and sync_to_device of            *)
(* mp3_synch_rip.py's class MP3SynchRip.                                   *)
(***************************************************************************)
EXTENDS Integers, Sequences, FiniteSets, TLC

VARIABLES
    \* the environment
    media,          \* the /media tree find_y1_device inspects
    srcFiles,       \* ~/Music: relative path -> size, MP3 files only
    devFiles,       \* the device: relative path -> size, MP3 files only
    devDirs,        \* the directories that exist below the device root
    \* main()'s locals
    pc, exit_status, device_path, free_space, source_mp3s, device_mp3s,
    to_copy, to_update, to_skip, to_delete, answer, response,
    total_copied, total_skipped, total_removed, all_errors,
    \* locals of the running sync_files / remove_orphans call
    todo, copied, skipped, removed, errors,
    \* what main() printed
    warned, prompted, summary,
    \* history of the run
    dev0,           \* devFiles when the run started
    fate,           \* what sync_files did with each entry
    unlinks,        \* unlink calls remove_orphans made, per path
    prevClean,      \* the previous run was a confirmed sync without failure
    \* a call of find_y1_device on its own
    find_result,    \* what the call did: <<[raised, path]>>, <<>> before it
    \* calls of get_source_mp3s and get_device_mp3s on their own
    tree,           \* the directory tree the two functions are called on
    source_keys,    \* <<keys of get_source_mp3s(tree)>>, <<>> before the call
    device_keys,    \* <<keys of get_device_mp3s(tree)>>, <<>> before the call
    \* an MP3SynchRip object (mp3_synch_rip.py) and the directories it uses
    config,         \* [sync_directory, urls]; <<>> for a key that is absent
    sync_dir,       \* str(self.sync_dir)
    fs,             \* directory -> <<names of its files>>, <<>> when missing
    rip_pc,         \* idle, downloading, syncing or done
    url_i,          \* download_all's position in urls
    success_count,  \* the local of download_all / sync_to_device
    download_result, \* <<what download_all returned>>
    audio_todo,     \* the files sync_to_device's loop has still to take
    failed_files,   \* as a set
    sync_result,    \* <<what sync_to_device returned>>
    \* history of the object's calls
    fs0,            \* fs when the object was built
    dl_log,         \* download_audio calls: [url, outcome, returned]
    copy_tried,     \* the files sync_to_device called shutil.copy2 for
    copy_ok         \* those for which the call did not raise

enum    == <<tree, source_keys, device_keys>>
rip     == <<config, sync_dir, fs, rip_pc, url_i, success_count, download_result,
             audio_todo, failed_files, sync_result, fs0, dl_log, copy_tried, copy_ok>>
calls   == <<find_result, enum, rip>>
env     == <<media, srcFiles, devDirs, calls>>
plan    == <<to_copy, to_update, to_skip, to_delete>>
scan    == <<free_space, source_mp3s, device_mp3s>>
totals  == <<total_copied, total_skipped, total_removed, all_errors>>
locals  == <<todo, copied, skipped, removed, errors>>
printed == <<warned, prompted, summary>>
hist    == <<dev0, fate, unlinks, prevClean>>
vars    == <<env, devFiles, pc, exit_status, device_path, scan, plan, answer,
             response, totals, locals, printed, hist>>

----------------------------------------------------------------------------
(* Bounds of the model *)

MaxSize == 1        \* file sizes are 0..MaxSize
MaxFree == 1        \* the device's free space is 0..MaxFree
MaxUsers == 2       \* entries of /media
MaxMounts == 1      \* entries of one user directory
MaxEntries == 2     \* entries of one directory of a scanned tree
MaxUrls == 2        \* length of the config's urls list

RootNames == {"a.mp3", "c.mp3"}
BookNames == {"b.mp3"}

----------------------------------------------------------------------------
(* Paths and file systems *)

None == <<>>

AUDIOBOOKS == "Audiobooks"

EXCLUDE_FILES ==
    {"synchToMP3.py", "downloadYT.py", "readme.md", "bashinstructions.md",
     "Claude.md", "yt-audio.sh"}

RootKeys == {<<n>> : n \in RootNames}
BookKeys == {<<AUDIOBOOKS, n>> : n \in BookNames}
Keys     == RootKeys \cup BookKeys
Sizes    == 0..MaxSize

\* Path.parent and Path.name
Parent(p) == SubSeq(p, 1, Len(p) - 1)
Name(p)   == p[Len(p)]

Mappings == UNION {[K -> Sizes] : K \in SUBSET Keys}

\* Path.exists() / Path.is_file() of a path on a file system
Exists(files, k) == k \in DOMAIN files

\* the file system after unlink() of k succeeded
Unlinked(files, k) == [x \in DOMAIN files \ {k} |-> files[x]]

\* the file system after k was written with s bytes
Written(files, k, s) == [x \in DOMAIN files \cup {k} |-> IF x = k THEN s ELSE files[x]]

\* the state of one path: {} when absent, {size} when a file
StateOf(files, k) == IF Exists(files, k) THEN {files[k]} ELSE {}

WithState(files, k, st) ==
    IF st = {} THEN Unlinked(files, k)
    ELSE Written(files, k, CHOOSE s \in st : TRUE)

\* a directory of the device exists: the device root always does
DirExists(dirs, d) == d = <<>> \/ d \in dirs

----------------------------------------------------------------------------
(* find_y1_device *)

\* /media is [exists, readable, users]; a user directory is [is_dir,
\* listable, mounts]; a mount point is [is_dir, marker, themes, wallpapers]:
\* marker is Android/data/com.innioasis.y1, themes is the Themes entry and
\* wallpapers the files of Y1Files directly under the mount point.
Y1Files == {"globalWallpaper.jpg", "UsbBackground.jpg", "desktopWallpaper.jpg"}

\* lines 68-78: the two checks that accept a mount point
IsY1(mp) ==
    \/ mp.marker
    \/ mp.themes /\ \E f \in Y1Files : f \in mp.wallpapers

\* lines 64-78: the loop over one user's mount points, from index i on;
\* the index of the first accepted one, 0 when there is none
RECURSIVE ScanMounts(_, _)
ScanMounts(mounts, i) ==
    IF i > Len(mounts) THEN 0
    ELSE IF ~mounts[i].is_dir THEN ScanMounts(mounts, i + 1)
    ELSE IF IsY1(mounts[i]) THEN i
    ELSE ScanMounts(mounts, i + 1)

\* lines 57-78: the loop over the user directories, from index u on
RECURSIVE ScanUsers(_, _)
ScanUsers(users, u) ==
    IF u > Len(users) THEN None
    ELSE IF ~users[u].is_dir THEN ScanUsers(users, u + 1)
    ELSE IF ~users[u].listable THEN ScanUsers(users, u + 1)
    ELSE IF ScanMounts(users[u].mounts, 1) # 0
         THEN <<u, ScanMounts(users[u].mounts, 1)>>
         ELSE ScanUsers(users, u + 1)

\* find_y1_device(): [raised, path].  Listing /media itself is outside the
\* try block, so an unreadable /media raises PermissionError to the caller.
FindY1Device(m) ==
    IF ~m.exists THEN [raised |-> FALSE, path |-> None]
    ELSE IF ~m.readable THEN [raised |-> TRUE, path |-> None]
    ELSE [raised |-> FALSE, path |-> ScanUsers(m.users, 1)]

\* deeper: a directory below the mount point holds the Y1 marker
Y1Mount ==
    [is_dir |-> TRUE, marker |-> TRUE, themes |-> FALSE, wallpapers |-> {},
     deeper |-> FALSE]
OtherMount ==
    [is_dir |-> TRUE, marker |-> FALSE, themes |-> TRUE, wallpapers |-> {},
     deeper |-> FALSE]

MediaOf(ms) ==
    [exists |-> TRUE, readable |-> TRUE,
     users |-> <<[is_dir |-> TRUE, listable |-> TRUE, mounts |-> ms]>>]

\* the /media trees a run of main() starts from
MainMedia ==
    { [exists |-> FALSE, readable |-> TRUE, users |-> <<>>],
      [exists |-> TRUE, readable |-> FALSE, users |-> <<>>],
      MediaOf(<<OtherMount>>),
      MediaOf(<<OtherMount, Y1Mount>>) }

\* the entries a user directory can hold: a regular file, an empty
\* directory, a wallpaper without Themes, a Y1 with the marker, a Y1 with
\* Themes and a wallpaper, a directory with a Y1 tree one level further down
FileEntry ==
    [is_dir |-> FALSE, marker |-> FALSE, themes |-> FALSE, wallpapers |-> {},
     deeper |-> FALSE]
PlainMount ==
    [is_dir |-> TRUE, marker |-> FALSE, themes |-> FALSE, wallpapers |-> {},
     deeper |-> FALSE]
WallpaperMount ==
    [is_dir |-> TRUE, marker |-> FALSE, themes |-> FALSE,
     wallpapers |-> {"UsbBackground.jpg"}, deeper |-> FALSE]
Y1ThemesMount ==
    [is_dir |-> TRUE, marker |-> FALSE, themes |-> TRUE,
     wallpapers |-> {"desktopWallpaper.jpg"}, deeper |-> FALSE]
DeeperMount ==
    [is_dir |-> TRUE, marker |-> FALSE, themes |-> FALSE, wallpapers |-> {},
     deeper |-> TRUE]

MountKinds ==
    {FileEntry, PlainMount, OtherMount, WallpaperMount, Y1Mount, Y1ThemesMount,
     DeeperMount}

SeqsUpTo(S, n) == UNION {[1..k -> S] : k \in 0..n}

\* the entries /media can hold: a regular file, a directory that cannot be
\* listed (with or without a Y1 in it), a directory that can
UserKinds ==
    {[is_dir |-> FALSE, listable |-> FALSE, mounts |-> <<>>]}
    \cup {[is_dir |-> TRUE, listable |-> FALSE, mounts |-> ms] :
             ms \in {<<>>, <<Y1Mount>>}}
    \cup {[is_dir |-> TRUE, listable |-> TRUE, mounts |-> ms] :
             ms \in SeqsUpTo(MountKinds, MaxMounts)}

\* the /media trees find_y1_device is called on
FindMedia ==
    {[exists |-> FALSE, readable |-> TRUE, users |-> <<>>]}
    \cup {[exists |-> TRUE, readable |-> FALSE, users |-> us] :
             us \in SeqsUpTo(UserKinds, 1)}
    \cup {[exists |-> TRUE, readable |-> TRUE, users |-> us] :
             us \in SeqsUpTo(UserKinds, MaxUsers)}

----------------------------------------------------------------------------
(* Scanning *)

\* get_source_mp3s: the keys of the mapping it returns
GetSourceMp3s(files) ==
    {k \in DOMAIN files : Len(k) = 1 /\ Name(k) \notin EXCLUDE_FILES}
    \cup {k \in DOMAIN files : Len(k) = 2 /\ k[1] = AUDIOBOOKS}

\* get_device_mp3s: the keys of the mapping it returns
GetDeviceMp3s(files, dirs) ==
    {k \in DOMAIN files : Len(k) = 1}
    \cup (IF <<AUDIOBOOKS>> \in dirs
          THEN {k \in DOMAIN files : Len(k) = 2 /\ k[1] = AUDIOBOOKS}
          ELSE {})

\* The two functions on a directory tree with all its entries.  A tree is
\* [root, books, other, deep]: the entries directly under the root, those
\* of root/Audiobooks (<<>> when there is no such directory), those of
\* another subdirectory of the root, and those of a subdirectory of
\* Audiobooks.  An entry is [name, is_file].

\* str.lower(), for the letters in use
LowerChar(c) ==
    CASE c = "Y" -> "y"
      [] c = "M" -> "m"
      [] c = "P" -> "p"
      [] c = "B" -> "b"
      [] c = "N" -> "n"
      [] c = "E" -> "e"
      [] c = "S" -> "s"
      [] OTHER   -> c

Lower(s) == [i \in 1..Len(s) |-> LowerChar(s[i])]

\* the characters of the file names in use
NameChars(n) ==
    CASE n = "a.mp3"     -> <<"a", ".", "m", "p", "3">>
      [] n = "B.MP3"     -> <<"B", ".", "M", "P", "3">>
      [] n = "c.txt"     -> <<"c", ".", "t", "x", "t">>
      [] n = ".mp3"      -> <<".", "m", "p", "3">>
      [] n = "d.mp3.bak" -> <<"d", ".", "m", "p", "3", ".", "b", "a", "k">>
      [] n = "readme.md" -> <<"r", "e", "a", "d", "m", "e", ".", "m", "d">>
      [] n = "dir.mp3"   -> <<"d", "i", "r", ".", "m", "p", "3">>
      [] n = "e.m4a"     -> <<"e", ".", "m", "4", "a">>

\* str.rfind('.'), counted from 1; 0 when there is no dot
RECURSIVE RFindDot(_, _)
RFindDot(cs, i) ==
    IF i = 0 THEN 0 ELSE IF cs[i] = "." THEN i ELSE RFindDot(cs, i - 1)

\* PurePath.suffix: from the last dot on, unless that dot is the first or
\* the last character of the name
Suffix(cs) ==
    LET i == RFindDot(cs, Len(cs)) IN
      IF 1 < i /\ i < Len(cs) THEN SubSeq(cs, i, Len(cs)) ELSE <<>>

\* the test without lower()
IsMp3CaseSensitive(e) ==
    e.is_file /\ Suffix(NameChars(e.name)) = <<".", "m", "p", "3">>

\* lines 108, 117, 135, 142: item.is_file() and item.suffix.lower() == '.mp3'
IsMp3(e) ==
    e.is_file /\ Lower(Suffix(NameChars(e.name))) = <<".", "m", "p", "3">>

\* lines 114-119 and 139-144: the Audiobooks part of both functions
BooksMp3s(t) ==
    IF t.books = None THEN {}
    ELSE {<<AUDIOBOOKS, e.name>> : e \in {x \in t.books[1] : IsMp3(x)}}

\* get_source_mp3s, lines 98-121
GetSourceMp3sOfTree(t) ==
    {<<e.name>> : e \in {x \in t.root : IsMp3(x) /\ x.name \notin EXCLUDE_FILES}}
    \cup BooksMp3s(t)

\* get_device_mp3s, lines 124-144
GetDeviceMp3sOfTree(t) ==
    {<<e.name>> : e \in {x \in t.root : IsMp3(x)}} \cup BooksMp3s(t)

EnumEntries ==
    {[name |-> n, is_file |-> TRUE] :
        n \in {"a.mp3", "B.MP3", "c.txt", ".mp3", "d.mp3.bak", "readme.md"}}
    \cup {[name |-> "dir.mp3", is_file |-> FALSE]}

Listings == {l \in SUBSET EnumEntries : Cardinality(l) <= MaxEntries}

\* an MP3 file in a place the functions do not look at
Elsewhere == {{}, {[name |-> "a.mp3", is_file |-> TRUE]}}

EmptyTree == [root |-> {}, books |-> None, other |-> {}, deep |-> {}]

EnumTrees ==
    {[root |-> r, books |-> None, other |-> o, deep |-> {}] :
        r \in Listings, o \in Elsewhere}
    \cup {[root |-> r, books |-> <<b>>, other |-> {}, deep |-> d] :
        r \in Listings, b \in Listings, d \in Elsewhere}

\* A dict iterates in insertion order and both scans insert the root-level
\* files before the Audiobooks files; within a directory the order is the
\* file system's.  The entries a loop over the rest of a mapping may take next:
NextEntries(rest) ==
    IF \E k \in rest : Len(k) = 1 THEN {k \in rest : Len(k) = 1} ELSE rest

----------------------------------------------------------------------------
(* The plan of main() *)

\* Classify with the size comparison dropped: every file found on the device
\* counts as changed
ClassifyNoSize(k, device_names, dev, src) ==
    IF k \notin device_names THEN "copy"
    ELSE IF Exists(dev, k) THEN "update"
    ELSE "skip"

\* lines 306-313: the class of one source key
Classify(k, device_names, dev, src) ==
    IF k \notin device_names THEN "copy"
    ELSE IF Exists(dev, k) /\ dev[k] # src[k] THEN "update"
    ELSE "skip"

\* ToDelete without the subtraction of the source's names
ToDeleteAll(source_names, device_names) == device_names

\* line 304
ToDelete(source_names, device_names) == device_names \ source_names

\* PlanEmpty without to_delete
PlanEmptyNoDelete(c, u, d) == c = {} /\ u = {}

\* line 338
PlanEmpty(c, u, d) == c = {} /\ u = {} /\ d = {}

\* line 343: the bytes of to_copy + to_update
RECURSIVE SumSizes(_, _)
SumSizes(ks, src) ==
    IF ks = {} THEN 0
    ELSE LET k == CHOOSE x \in ks : TRUE
         IN  src[k] + SumSizes(ks \ {k}, src)

\* line 344
NotEnoughSpace(needed, free) == needed > free

----------------------------------------------------------------------------
(* The confirmation prompt: input(...).strip().lower() *)

Whitespace == {" ", "\t", "\n"}

RECURSIVE LStrip(_)
LStrip(s) == IF s # <<>> /\ Head(s) \in Whitespace THEN LStrip(Tail(s)) ELSE s

RECURSIVE RStrip(_)
RStrip(s) ==
    IF s # <<>> /\ s[Len(s)] \in Whitespace
    THEN RStrip(SubSeq(s, 1, Len(s) - 1)) ELSE s

Strip(s) == RStrip(LStrip(s))

\* Affirmative for any answer that starts with y
AffirmativePrefix(r) == r # <<>> /\ r[1] = "y"

\* line 352: the only answer that lets the run go on
Affirmative(r) == r = <<"y">>

\* what the user may type (a string is the sequence of its characters)
Answers ==
    { <<"y">>, <<"Y">>, <<" ", "y", "\t">>, <<" ", "Y">>, <<>>, <<"n">>, <<"N">>,
      <<"y", "e", "s">>, <<"y", " ", "y">>, <<" ">> }

\* exit statuses: lines 295 and 340, line 354, line 278, and an exception
\* that leaves main()
NothingExit  == 0
DeclineExit  == 0
NoDeviceExitZero == NothingExit
NoDeviceExit == 1
CrashExit    == 1

\* a run that fails as a whole when an entry failed
ReportExitOnErrors(errs) == IF errs = <<>> THEN 0 ELSE 1

\* main() returns after the summary: the interpreter exits with status 0
ReportExit(errs) == 0

----------------------------------------------------------------------------
(* sync_files and remove_orphans: the decisions taken per entry *)

\* ParentExists that takes every folder as present
ParentExistsAlways(dirs, k) == TRUE

\* line 178: dest_file.parent.exists()
ParentExists(dirs, k) == DirExists(dirs, Parent(k))

\* AlreadySynced without the size comparison
AlreadySyncedAnySize(dev, src, k) == Exists(dev, k)

\* lines 187-188: the destination exists and has the source's size
AlreadySynced(dev, src, k) == Exists(dev, k) /\ dev[k] = src[k]

\* IsOrphan that takes every device file as an orphan
IsOrphanAlways(k, source_names) == TRUE

\* line 246
IsOrphan(k, source_names) == k \notin source_names

\* The destination after shutil.copy2 raised: untouched (the source could
\* not be read, the destination could not be opened), or a file holding the
\* bytes written so far, all of them when only the metadata copy failed.
FailedCopyStates(dev, src, k) ==
    {StateOf(dev, k)} \cup {{p} : p \in 0..src[k]}

\* whether the cleanup unlink of what a failed copy left would succeed; with
\* nothing left there is no unlink
UnlinkChoices(st) == IF st = {} THEN {TRUE} ELSE BOOLEAN

\* AfterFailedCopy without the cleanup
AfterFailedCopyKept(files, k, st, ok) == WithState(files, k, st)

\* lines 206-211: the cleanup after a failed copy that left state st at the
\* destination; ok tells whether unlink succeeds, its failure is passed over
AfterFailedCopy(files, k, st, ok) ==
    IF st # {}
    THEN IF ok THEN Unlinked(files, k) ELSE WithState(files, k, st)
    ELSE WithState(files, k, st)

\* what the file system did to a failed copy, for the history
FailFate(st, ok) ==
    IF st = {} THEN "failed_nothing_left"
    ELSE IF ok THEN "failed_left_removable" ELSE "failed_left_stuck"

\* a loop that gives up at the first failure
RemainingAbort(rest, k, failed) == IF failed THEN {} ELSE rest \ {k}

\* lines 174, 184, 194, 202-214: the entries left after entry k: the except
\* clause falls through to the next iteration
Remaining(rest, k, failed) == rest \ {k}

\* the messages of the exceptions, as str(e) gives them
CopyError   == "copy failed"
UnlinkError == "unlink failed"

\* the errors a list holds for one path
ErrorsFor(errs, k) == {i \in 1..Len(errs) : errs[i][1] = k}

NoFate == [k \in Keys |-> "none"]
NoUnlinks == [k \in Keys |-> 0]

----------------------------------------------------------------------------
(* mp3_synch_rip.py: class MP3SynchRip *)

DEFAULT_SYNC_PATH == "/path/to/device"

\* the download directory, the current directory and a player's mount point
DOWNLOADS == "./downloads"
CWD       == "."
PLAYER    == "/mnt/player"

Dirs == {DOWNLOADS, CWD, PLAYER, DEFAULT_SYNC_PATH}

\* dict.get(key, default) of a value kept as <<>> (absent) or <<v>>
Get(v, default) == IF v = None THEN default ELSE v[1]

\* str(Path(s)): the empty path is the current directory
PathStr(s) == IF s = "" THEN CWD ELSE s

\* bool() of a Path: the class defines neither __bool__ nor __len__, so
\* every Path object is true
PathTruthy(s) == TRUE

\* line 103: the sync directory counts as not configured
Unconfigured(cfg_value, dir) ==
    ~PathTruthy(Get(cfg_value, "")) \/ dir = DEFAULT_SYNC_PATH

\* line 115
audio_extensions ==
    << <<".", "m", "p", "3">>, <<".", "m", "4", "a">>, <<".", "w", "a", "v">>,
       <<".", "f", "l", "a", "c">>, <<".", "o", "g", "g">> >>

\* Path.glob('*' + ext) on one name: the name ends with ext, letter case
\* counting
GlobMatches(n, ext) ==
    LET cs == NameChars(n) IN
      Len(cs) >= Len(ext) /\ SubSeq(cs, Len(cs) - Len(ext) + 1, Len(cs)) = ext

\* lines 116-118: the files of audio_files that the glob of extension
\* number i found
AudioFiles(names, i) == {n \in names : GlobMatches(n, audio_extensions[i])}

AllAudioFiles(names) == UNION {AudioFiles(names, i) : i \in 1..Len(audio_extensions)}

\* the loop at line 130 takes audio_files in list order: extension by
\* extension, the file system's order within one extension
NextAudio(rest) ==
    LET first == CHOOSE i \in 1..Len(audio_extensions) :
                    /\ AudioFiles(rest, i) # {}
                    /\ \A j \in 1..(i - 1) : AudioFiles(rest, j) = {}
    IN AudioFiles(rest, first)

\* Path.mkdir(parents=True, exist_ok=True)
Mkdir(f, d) == IF f[d] = None THEN [f EXCEPT ![d] = <<{}>>] ELSE f

\* a file of that name is in directory d afterwards
AddFile(f, d, n) == [f EXCEPT ![d] = <<f[d][1] \cup {n}>>]

\* True whatever failed
SyncReturnValueAlways(failed) == TRUE

\* lines 140-145
SyncReturnValue(failed) == failed = {}

\* download_audio catches nothing
DownloadAudioReturnAlways(outcome) == TRUE

\* lines 77-84: what download_audio returns for the downloader's outcome
DownloadAudioReturn(outcome) == outcome = "completed"

\* the file the downloader writes for a URL (outtmpl, line 73)
TitleOf(url) == IF url = "u1" THEN "a.mp3" ELSE "e.m4a"

UrlLists == SeqsUpTo({"u1", "u2"}, MaxUrls)

DownloadNames == {"a.mp3", "e.m4a", "B.MP3", "c.txt"}

\* no MP3SynchRip object is in use
NoRip ==
    /\ config = [sync_directory |-> None, urls |-> None]
    /\ sync_dir = CWD
    /\ fs = [d \in Dirs |-> None]
    /\ rip_pc = "done"
    /\ url_i = 0
    /\ success_count = 0
    /\ download_result = None
    /\ audio_todo = {}
    /\ failed_files = {}
    /\ sync_result = None
    /\ fs0 = fs
    /\ dl_log = <<>>
    /\ copy_tried = {} /\ copy_ok = {}

----------------------------------------------------------------------------
(* The state a run of main() starts from *)

Init ==
    /\ media \in MainMedia
    /\ srcFiles \in Mappings
    /\ devFiles \in Mappings
    /\ devDirs \in SUBSET {<<AUDIOBOOKS>>}
    /\ \A k \in DOMAIN devFiles : DirExists(devDirs, Parent(k))
    /\ pc = "start"
    /\ exit_status = None
    /\ device_path = None
    /\ free_space = 0
    /\ source_mp3s = {}
    /\ device_mp3s = {}
    /\ to_copy = {} /\ to_update = {} /\ to_skip = {} /\ to_delete = {}
    /\ answer = None
    /\ response = None
    /\ total_copied = 0 /\ total_skipped = 0 /\ total_removed = 0
    /\ all_errors = <<>>
    /\ todo = {}
    /\ copied = 0 /\ skipped = 0 /\ removed = 0
    /\ errors = <<>>
    /\ warned = FALSE /\ prompted = FALSE
    /\ summary = None
    /\ dev0 = devFiles
    /\ fate = NoFate
    /\ unlinks = NoUnlinks
    /\ prevClean = FALSE
    /\ find_result = None
    /\ tree = EmptyTree /\ source_keys = None /\ device_keys = None
    /\ NoRip

\* sys.exit(code)
Exit(code) == pc' = "exited" /\ exit_status' = <<code>>

----------------------------------------------------------------------------
(* main(), step by step *)

\* lines 271-281
Discover ==
    /\ pc = "start"
    /\ LET r == FindY1Device(media) IN
         /\ device_path' = r.path
         /\ IF r.raised THEN Exit(CrashExit)
            ELSE IF r.path = None THEN Exit(NoDeviceExit)
            ELSE pc' = "found" /\ UNCHANGED exit_status
    /\ UNCHANGED <<env, devFiles, scan, plan, answer, response, totals, locals,
                   printed, hist>>

\* lines 283-295
Scan ==
    /\ pc = "found"
    /\ \E f \in 0..MaxFree : free_space' = f
    /\ source_mp3s' = GetSourceMp3s(srcFiles)
    /\ device_mp3s' = GetDeviceMp3s(devFiles, devDirs)
    /\ IF source_mp3s' = {} /\ device_mp3s' = {}
       THEN Exit(NothingExit)
       ELSE pc' = "scanned" /\ UNCHANGED exit_status
    /\ UNCHANGED <<env, devFiles, device_path, plan, answer, response, totals,
                   locals, printed, hist>>

\* lines 297-340
Plan ==
    /\ pc = "scanned"
    /\ to_copy' = {k \in source_mp3s :
                     Classify(k, device_mp3s, devFiles, srcFiles) = "copy"}
    /\ to_update' = {k \in source_mp3s :
                       Classify(k, device_mp3s, devFiles, srcFiles) = "update"}
    /\ to_skip' = {k \in source_mp3s :
                     Classify(k, device_mp3s, devFiles, srcFiles) = "skip"}
    /\ to_delete' = ToDelete(source_mp3s, device_mp3s)
    /\ IF PlanEmpty(to_copy', to_update', to_delete')
       THEN Exit(NothingExit)
       ELSE pc' = "planned" /\ UNCHANGED exit_status
    /\ UNCHANGED <<env, devFiles, device_path, scan, answer, response, totals,
                   locals, printed, hist>>

\* lines 342-351: the space warning, then the prompt and what the user types
Prompt ==
    /\ pc = "planned"
    /\ warned' = NotEnoughSpace(SumSizes(to_copy \cup to_update, srcFiles), free_space)
    /\ prompted' = TRUE
    /\ \E a \in Answers : answer' = a
    /\ pc' = "answered"
    /\ UNCHANGED <<env, devFiles, exit_status, device_path, scan, plan, response,
                   totals, locals, summary, hist>>

\* StartApply with the two calls in the other order
StartApplyDeleteFirst ==
    IF to_delete # {}
    THEN pc' = "delete" /\ todo' = device_mp3s
    ELSE IF to_copy # {} \/ to_update # {}
    THEN pc' = "copy" /\ todo' = source_mp3s
    ELSE pc' = "report" /\ todo' = {}

\* the first call of the apply phase that runs: lines 403, 413 (with rich
\* installed lines 380, 390 make the same calls in the same order)
StartApply ==
    IF to_copy # {} \/ to_update # {}
    THEN pc' = "copy" /\ todo' = source_mp3s
    ELSE IF to_delete # {}
    THEN pc' = "delete" /\ todo' = device_mp3s
    ELSE pc' = "report" /\ todo' = {}

\* lines 351-365: the answer is normalised and decides; the raw string is a
\* temporary of the expression
Decide ==
    /\ pc = "answered"
    /\ response' = Lower(Strip(answer))
    /\ answer' = None
    /\ IF ~Affirmative(response')
       THEN Exit(DeclineExit) /\ UNCHANGED todo
       ELSE StartApply /\ UNCHANGED exit_status
    /\ UNCHANGED <<env, devFiles, device_path, scan, plan, totals,
                   copied, skipped, removed, errors, printed, hist>>

\* lines 174-214: one iteration of sync_files' loop
SyncFilesEntry ==
    /\ pc = "copy"
    /\ \E k \in NextEntries(todo) :
         IF ~ParentExists(devDirs, k)
         THEN /\ skipped' = skipped + 1
              /\ fate' = [fate EXCEPT ![k] = "no_folder"]
              /\ todo' = Remaining(todo, k, FALSE)
              /\ UNCHANGED <<devFiles, copied, errors>>
         ELSE IF AlreadySynced(devFiles, srcFiles, k)
         THEN /\ skipped' = skipped + 1
              /\ fate' = [fate EXCEPT ![k] = "synced"]
              /\ todo' = Remaining(todo, k, FALSE)
              /\ UNCHANGED <<devFiles, copied, errors>>
         ELSE \/ \* shutil.copy2 returns
                 /\ devFiles' = Written(devFiles, k, srcFiles[k])
                 /\ copied' = copied + 1
                 /\ fate' = [fate EXCEPT ![k] = "copied"]
                 /\ todo' = Remaining(todo, k, FALSE)
                 /\ UNCHANGED <<skipped, errors>>
              \/ \* shutil.copy2 raises
                 \E st \in FailedCopyStates(devFiles, srcFiles, k) :
                   \E ok \in UnlinkChoices(st) :
                     /\ errors' = Append(errors, <<k, CopyError>>)
                     /\ devFiles' = AfterFailedCopy(devFiles, k, st, ok)
                     /\ fate' = [fate EXCEPT ![k] = FailFate(st, ok)]
                     /\ todo' = Remaining(todo, k, TRUE)
                     /\ UNCHANGED <<copied, skipped>>
    /\ UNCHANGED <<env, pc, exit_status, device_path, scan, plan, answer, response,
                   totals, removed, printed, dev0, unlinks, prevClean>>

\* lines 216, 406-413: sync_files returns to main()
SyncFilesReturn ==
    /\ pc = "copy"
    /\ todo = {}
    /\ total_copied' = copied
    /\ total_skipped' = skipped
    /\ all_errors' = all_errors \o errors
    /\ errors' = <<>>
    /\ IF to_delete # {}
       THEN pc' = "delete" /\ todo' = device_mp3s
       ELSE pc' = "report" /\ todo' = {}
    /\ UNCHANGED <<env, devFiles, exit_status, device_path, scan, plan, answer,
                   response, total_removed, copied, skipped, removed, printed, hist>>

\* lines 245-258: one iteration of remove_orphans' loop
RemoveOrphansEntry ==
    /\ pc = "delete"
    /\ \E k \in NextEntries(todo) :
         /\ todo' = todo \ {k}
         /\ IF IsOrphan(k, source_mp3s)
            THEN /\ unlinks' = [unlinks EXCEPT ![k] = @ + 1]
                 /\ \/ \* unlink returns
                       /\ devFiles' = Unlinked(devFiles, k)
                       /\ removed' = removed + 1
                       /\ UNCHANGED errors
                    \/ \* unlink raises
                       /\ errors' = Append(errors, <<k, UnlinkError>>)
                       /\ UNCHANGED <<devFiles, removed>>
            ELSE UNCHANGED <<devFiles, removed, errors, unlinks>>
    /\ UNCHANGED <<env, pc, exit_status, device_path, scan, plan, answer, response,
                   totals, copied, skipped, printed, dev0, fate, prevClean>>

\* lines 260, 416-420: remove_orphans returns to main()
RemoveOrphansReturn ==
    /\ pc = "delete"
    /\ todo = {}
    /\ total_removed' = removed
    /\ all_errors' = all_errors \o errors
    /\ errors' = <<>>
    /\ pc' = "report"
    /\ UNCHANGED <<env, devFiles, exit_status, device_path, scan, plan, answer,
                   response, total_copied, total_skipped, todo, copied, skipped,
                   removed, printed, hist>>

\* lines 422-433: the summary; main() returns
Report ==
    /\ pc = "report"
    /\ summary' = <<[copied |-> total_copied, skipped |-> total_skipped,
                     removed |-> total_removed, errors |-> all_errors]>>
    /\ Exit(ReportExit(all_errors))
    /\ UNCHANGED <<env, devFiles, device_path, scan, plan, answer, response,
                   totals, locals, warned, prompted, hist>>

\* every destination parent directory of the source exists on the device
ParentsExist == \A k \in DOMAIN srcFiles : Parent(k) = <<>> \/ Parent(k) \in devDirs

FailedFates == {"failed_nothing_left", "failed_left_removable", "failed_left_stuck"}

\* no copy of the run failed, and every file remove_orphans unlinked is gone
NoFailure ==
    /\ \A k \in Keys : fate[k] \notin FailedFates
    /\ \A k \in Keys : unlinks[k] > 0 => ~Exists(devFiles, k)

\* the run was confirmed and reached its summary
Completed == pc = "exited" /\ summary # None

\* the run got as far as computing its plan
PlanComputed ==
    \/ pc \in {"planned", "answered", "copy", "delete", "report"}
    \/ pc = "exited" /\ device_path # None /\ source_mp3s \cup device_mp3s # {}

\* lines 436-437: the script is run again, on the file systems as they are
Restart ==
    /\ pc = "exited"
    /\ pc' = "start"
    /\ exit_status' = None
    /\ device_path' = None
    /\ free_space' = 0
    /\ source_mp3s' = {}
    /\ device_mp3s' = {}
    /\ to_copy' = {} /\ to_update' = {} /\ to_skip' = {} /\ to_delete' = {}
    /\ answer' = None
    /\ response' = None
    /\ total_copied' = 0 /\ total_skipped' = 0 /\ total_removed' = 0
    /\ all_errors' = <<>>
    /\ todo' = {}
    /\ copied' = 0 /\ skipped' = 0 /\ removed' = 0
    /\ errors' = <<>>
    /\ warned' = FALSE /\ prompted' = FALSE
    /\ summary' = None
    /\ dev0' = devFiles
    /\ fate' = NoFate
    /\ unlinks' = NoUnlinks
    /\ prevClean' = (Completed /\ NoFailure /\ ParentsExist)
    /\ UNCHANGED <<env, devFiles>>

Next ==
    \/ Discover
    \/ Scan
    \/ Plan
    \/ Prompt
    \/ Decide
    \/ SyncFilesEntry
    \/ SyncFilesReturn
    \/ RemoveOrphansEntry
    \/ RemoveOrphansReturn
    \/ Report
    \/ Restart

Spec == Init /\ [][Next]_vars

----------------------------------------------------------------------------
(* The functions called on their own *)

\* nothing of main() has run, and nothing is in ~/Music or on the device
NoRun ==
    /\ srcFiles = <<>> /\ devFiles = <<>> /\ devDirs = {}
    /\ pc = "start"
    /\ exit_status = None
    /\ device_path = None
    /\ free_space = 0
    /\ source_mp3s = {}
    /\ device_mp3s = {}
    /\ to_copy = {} /\ to_update = {} /\ to_skip = {} /\ to_delete = {}
    /\ answer = None
    /\ response = None
    /\ total_copied = 0 /\ total_skipped = 0 /\ total_removed = 0
    /\ all_errors = <<>>
    /\ todo = {}
    /\ copied = 0 /\ skipped = 0 /\ removed = 0
    /\ errors = <<>>
    /\ warned = FALSE /\ prompted = FALSE
    /\ summary = None
    /\ dev0 = <<>>
    /\ fate = NoFate
    /\ unlinks = NoUnlinks
    /\ prevClean = FALSE

run == <<srcFiles, devFiles, devDirs, pc, exit_status, device_path, scan, plan,
         answer, response, totals, locals, printed, hist>>

InitFind ==
    /\ media \in FindMedia
    /\ find_result = None
    /\ tree = EmptyTree /\ source_keys = None /\ device_keys = None
    /\ NoRip
    /\ NoRun

\* find_y1_device(), lines 41-80
CallFindY1Device ==
    /\ find_result = None
    /\ find_result' = <<FindY1Device(media)>>
    /\ UNCHANGED <<media, run, enum, rip>>

NextFind == CallFindY1Device

SpecFind == InitFind /\ [][NextFind]_vars

NoMedia == [exists |-> FALSE, readable |-> TRUE, users |-> <<>>]

InitEnum ==
    /\ tree \in EnumTrees
    /\ source_keys = None /\ device_keys = None
    /\ media = NoMedia /\ find_result = None
    /\ NoRip
    /\ NoRun

\* get_source_mp3s(tree)
CallGetSourceMp3s ==
    /\ source_keys = None
    /\ source_keys' = <<GetSourceMp3sOfTree(tree)>>
    /\ UNCHANGED <<tree, device_keys, media, find_result, run, rip>>

\* get_device_mp3s(tree)
CallGetDeviceMp3s ==
    /\ device_keys = None
    /\ device_keys' = <<GetDeviceMp3sOfTree(tree)>>
    /\ UNCHANGED <<tree, source_keys, media, find_result, run, rip>>

NextEnum == CallGetSourceMp3s \/ CallGetDeviceMp3s

SpecEnum == InitEnum /\ [][NextEnum]_vars

\* an MP3SynchRip object after __init__ (lines 28-33)
InitRip ==
    /\ config \in [sync_directory : {None, <<"">>, <<DEFAULT_SYNC_PATH>>, <<PLAYER>>},
                   urls : {None} \cup {<<us>> : us \in UrlLists}]
    /\ sync_dir = PathStr(Get(config.sync_directory, ""))
    /\ \E dl \in {None} \cup {<<ns>> : ns \in SUBSET DownloadNames},
          pl \in {None, <<{}>>, <<{"a.mp3"}>>} :
          fs = [d \in Dirs |-> IF d = DOWNLOADS THEN dl
                               ELSE IF d = PLAYER THEN pl
                               ELSE IF d = CWD THEN <<{}>> ELSE None]
    /\ rip_pc = "idle"
    /\ url_i = 0
    /\ success_count = 0
    /\ download_result = None
    /\ audio_todo = {}
    /\ failed_files = {}
    /\ sync_result = None
    /\ fs0 = fs
    /\ dl_log = <<>>
    /\ copy_tried = {} /\ copy_ok = {}
    /\ media = NoMedia /\ find_result = None
    /\ tree = EmptyTree /\ source_keys = None /\ device_keys = None
    /\ NoRun

others == <<media, find_result, enum, run>>

\* download_all, lines 86-92
DownloadAllEntry ==
    /\ rip_pc = "idle" /\ download_result = None
    /\ IF Get(config.urls, <<>>) = <<>>
       THEN /\ download_result' = <<0>>
            /\ UNCHANGED <<rip_pc, url_i, success_count>>
       ELSE /\ rip_pc' = "downloading"
            /\ url_i' = 1
            /\ success_count' = 0
            /\ UNCHANGED download_result
    /\ UNCHANGED <<config, sync_dir, fs, audio_todo, failed_files, sync_result,
                   fs0, dl_log, copy_tried, copy_ok, others>>

\* one turn of the loop at lines 94-96 with its download_audio call
\* (lines 58-84): the downloader completes or raises
DownloadAudio ==
    /\ rip_pc = "downloading"
    /\ url_i <= Len(Get(config.urls, <<>>))
    /\ \E outcome \in {"completed", "raised"} :
         LET url == Get(config.urls, <<>>)[url_i]
             returned == DownloadAudioReturn(outcome)
         IN /\ fs' = IF outcome = "completed"
                     THEN AddFile(Mkdir(fs, DOWNLOADS), DOWNLOADS, TitleOf(url))
                     ELSE Mkdir(fs, DOWNLOADS)
            /\ dl_log' = Append(dl_log, [url |-> url, outcome |-> outcome,
                                         returned |-> returned])
            /\ success_count' = IF returned THEN success_count + 1 ELSE success_count
    /\ url_i' = url_i + 1
    /\ UNCHANGED <<config, sync_dir, rip_pc, download_result, audio_todo,
                   failed_files, sync_result, fs0, copy_tried, copy_ok, others>>

\* lines 98-99
DownloadAllReturn ==
    /\ rip_pc = "downloading"
    /\ url_i > Len(Get(config.urls, <<>>))
    /\ download_result' = <<success_count>>
    /\ rip_pc' = "idle"
    /\ UNCHANGED <<config, sync_dir, fs, url_i, success_count, audio_todo,
                   failed_files, sync_result, fs0, dl_log, copy_tried, copy_ok,
                   others>>

\* sync_to_device, lines 101-128
SyncToDeviceEntry ==
    /\ rip_pc = "idle" /\ sync_result = None
    /\ IF Unconfigured(config.sync_directory, sync_dir)
       THEN /\ sync_result' = <<FALSE>> /\ rip_pc' = "done"
            /\ UNCHANGED <<fs, audio_todo, failed_files, success_count>>
       ELSE IF fs[DOWNLOADS] = None
       THEN /\ sync_result' = <<FALSE>> /\ rip_pc' = "done"
            /\ UNCHANGED <<fs, audio_todo, failed_files, success_count>>
       ELSE /\ fs' = Mkdir(fs, sync_dir)
            /\ IF AllAudioFiles(fs[DOWNLOADS][1]) = {}
               THEN /\ sync_result' = <<FALSE>> /\ rip_pc' = "done"
                    /\ UNCHANGED <<audio_todo, failed_files, success_count>>
               ELSE /\ rip_pc' = "syncing"
                    /\ audio_todo' = AllAudioFiles(fs[DOWNLOADS][1])
                    /\ failed_files' = {}
                    /\ success_count' = 0
                    /\ UNCHANGED sync_result
    /\ UNCHANGED <<config, sync_dir, url_i, download_result, fs0, dl_log,
                   copy_tried, copy_ok, others>>

\* one turn of the loop at lines 130-138: shutil.copy2 succeeds, or raises
\* having written nothing or part of the destination file
SyncCopy ==
    /\ rip_pc = "syncing"
    /\ \E f \in NextAudio(audio_todo) :
         /\ audio_todo' = audio_todo \ {f}
         /\ copy_tried' = copy_tried \cup {f}
         /\ \/ /\ fs' = AddFile(fs, sync_dir, f)
               /\ success_count' = success_count + 1
               /\ copy_ok' = copy_ok \cup {f}
               /\ UNCHANGED failed_files
            \/ /\ fs' \in {fs, AddFile(fs, sync_dir, f)}
               /\ failed_files' = failed_files \cup {f}
               /\ UNCHANGED <<success_count, copy_ok>>
    /\ audio_todo # {}
    /\ UNCHANGED <<config, sync_dir, rip_pc, url_i, download_result, sync_result,
                   fs0, dl_log, others>>

\* lines 140-145
SyncToDeviceReturn ==
    /\ rip_pc = "syncing"
    /\ audio_todo = {}
    /\ sync_result' = <<SyncReturnValue(failed_files)>>
    /\ rip_pc' = "done"
    /\ UNCHANGED <<config, sync_dir, fs, url_i, success_count, download_result,
                   audio_todo, failed_files, fs0, dl_log, copy_tried, copy_ok,
                   others>>

NextRip ==
    \/ DownloadAllEntry
    \/ DownloadAudio
    \/ DownloadAllReturn
    \/ SyncToDeviceEntry
    \/ SyncCopy
    \/ SyncToDeviceReturn

SpecRip == InitRip /\ [][NextRip]_vars

\* main() is sequential code: a step that can be taken is taken
FairSpec == Spec /\ WF_vars(Next)

----------------------------------------------------------------------------
(* Claims *)

KeyA == <<"a.mp3">>
KeyC == <<"c.mp3">>
KeyB == <<AUDIOBOOKS, "b.mp3">>

PlanIsEmpty == to_copy = {} /\ to_update = {} /\ to_delete = {}

\* C1: when every destination parent directory exists on the device, a
\* confirmed run in which no copy and no unlink fails ends with the device
\* holding exactly the source's paths, each with the source's size; the run
\* after it plans nothing, asks nothing and leaves the device as it is.
C1_Convergence ==
    /\ (Completed /\ NoFailure /\ ParentsExist) =>
           /\ DOMAIN devFiles = DOMAIN srcFiles
           /\ \A k \in DOMAIN srcFiles : devFiles[k] = srcFiles[k]
    /\ prevClean =>
           /\ PlanIsEmpty
           /\ ~prompted
           /\ devFiles = dev0
           /\ pc = "exited" => exit_status = <<0>>

\* the run after a clean sync of all three paths has computed its plan
C1_Witness ==
    prevClean /\ pc = "exited" /\ to_skip = Keys

\* C2: the plan is a partition: to_copy, to_update and to_skip are pairwise
\* disjoint and cover the source's keys, to_delete is the device's keys
\* minus the source's, so the four sets are disjoint and cover both sides.
C2_Partition ==
    PlanComputed =>
        /\ to_copy \cap to_update = {}
        /\ to_copy \cap to_skip = {}
        /\ to_update \cap to_skip = {}
        /\ to_copy \cup to_update \cup to_skip = DOMAIN srcFiles
        /\ to_delete = DOMAIN dev0 \ DOMAIN srcFiles
        /\ to_delete \cap (to_copy \cup to_update \cup to_skip) = {}
        /\ to_copy \cup to_update \cup to_skip \cup to_delete
               = DOMAIN srcFiles \cup DOMAIN dev0

C2_Witness ==
    pc = "planned" /\ to_skip # {} /\ to_update # {} /\ to_delete # {}

\* C3: a source key is planned copy iff the device lacks it, update iff the
\* device has it with another size, skip iff the device has it with the
\* same size; the scenario of the spec gives update {a.mp3}, copy
\* {Audiobooks/b.mp3}, delete {c.mp3}.
C3_Classification ==
    PlanComputed =>
        /\ \A k \in DOMAIN srcFiles :
             /\ k \in to_copy <=> k \notin DOMAIN dev0
             /\ k \in to_update <=> (k \in DOMAIN dev0 /\ dev0[k] # srcFiles[k])
             /\ k \in to_skip <=> (k \in DOMAIN dev0 /\ dev0[k] = srcFiles[k])
        /\ (/\ DOMAIN srcFiles = {KeyA, KeyB}
            /\ DOMAIN dev0 = {KeyA, KeyC}
            /\ dev0[KeyA] # srcFiles[KeyA]) =>
               to_update = {KeyA} /\ to_copy = {KeyB} /\ to_delete = {KeyC}

C3_Witness ==
    /\ pc = "planned"
    /\ DOMAIN srcFiles = {KeyA, KeyB}
    /\ DOMAIN dev0 = {KeyA, KeyC}
    /\ dev0[KeyA] # srcFiles[KeyA]
    /\ to_update = {KeyA} /\ to_copy = {KeyB} /\ to_delete = {KeyC}

\* the user answered the prompt with something else than y
Declined == prompted /\ pc \notin {"planned", "answered"} /\ response # <<"y">>

\* the user answered the prompt with y
Confirmed == prompted /\ response = <<"y">>

\* nothing of the device was touched in this run
Untouched == devFiles = dev0 /\ fate = NoFate /\ unlinks = NoUnlinks

\* C4: when the trimmed, lower-cased answer to the prompt is not y, the run
\* ends at once and both file systems are as they were when it started:
\* nothing was copied, overwritten or unlinked.
C4_HardStop ==
    /\ [](Declined => pc = "exited" /\ Untouched /\ summary = None)
    /\ [][(pc = "answered" /\ Lower(Strip(answer)) # <<"y">>) =>
             (pc' = "exited" /\ devFiles' = dev0 /\ srcFiles' = srcFiles
              /\ fate' = NoFate /\ unlinks' = NoUnlinks)]_vars

\* the user typed yes although the space warning was shown, with files to copy
C4_Witness ==
    /\ pc = "exited" /\ warned /\ to_copy # {} /\ to_delete # {}
    /\ response = <<"y", "e", "s">>

\* C5 as stated: no device, or a declined prompt, ends the run with a
\* non-zero exit status.
C5_Original ==
    (pc = "exited" /\ (device_path = None \/ Declined)) => exit_status # <<0>>

\* C5 as the code has it: no device ends the run with exit status 1; a
\* declined prompt ends it with exit status 0.
C5_ExitStatus ==
    /\ (pc = "exited" /\ device_path = None) => exit_status = <<1>>
    /\ (pc = "exited" /\ Declined) => exit_status = <<0>>

C5_Witness == pc = "exited" /\ Declined /\ exit_status = <<0>> /\ device_path # None

\* every error recorded so far in the run
AllErrors == all_errors \o errors

CopyErrors(k) == {i \in 1..Len(AllErrors) : AllErrors[i] = <<k, CopyError>>}
UnlinkErrors(k) == {i \in 1..Len(AllErrors) : AllErrors[i] = <<k, UnlinkError>>}

\* sync_files was called and has returned
SyncReturned ==
    /\ to_copy \cup to_update # {}
    /\ pc \in {"delete", "report"} \/ Completed

\* C6: a failed copy records exactly one error for its entry and does not
\* count as copied; a file the failed copy left at the destination is
\* unlinked, and when that unlink fails too nothing more is recorded; the
\* loop goes on: when sync_files returns every entry was processed.
C6_CopyFailure ==
    /\ \A k \in Keys :
         /\ Cardinality(CopyErrors(k)) = IF fate[k] \in FailedFates THEN 1 ELSE 0
         /\ fate[k] \in {"failed_nothing_left", "failed_left_removable"}
                => ~Exists(devFiles, k)
         /\ fate[k] = "failed_left_stuck" => Exists(devFiles, k)
    /\ copied = Cardinality({k \in Keys : fate[k] = "copied"})
    /\ pc = "copy" => todo \cup {k \in Keys : fate[k] # "none"} = source_mp3s
    /\ SyncReturned =>
         /\ \A k \in DOMAIN srcFiles : fate[k] # "none"
         /\ total_copied + total_skipped
              + Cardinality({k \in Keys : fate[k] \in FailedFates})
              = Cardinality(DOMAIN srcFiles)

\* the first copy failed and left a file, the next entries were still copied
C6_Witness ==
    /\ pc = "report"
    /\ fate[KeyA] = "failed_left_removable"
    /\ fate[KeyC] = "failed_left_stuck"
    /\ fate[KeyB] = "copied"

\* C7: an entry whose destination parent directory is missing is only
\* counted as skipped: no copy, no error, the device as it was for that
\* entry; no run creates or removes a directory of the device.
C7_MissingFolder ==
    /\ [](\A k \in Keys :
            (fate[k] # "none" /\ Parent(k) # <<>> /\ Parent(k) \notin devDirs) =>
               /\ fate[k] = "no_folder"
               /\ StateOf(devFiles, k) = StateOf(dev0, k)
               /\ ErrorsFor(AllErrors, k) = {})
    /\ [](skipped = Cardinality({k \in Keys : fate[k] \in {"no_folder", "synced"}}))
    /\ [](\A k \in DOMAIN devFiles : Parent(k) = <<>> \/ Parent(k) \in devDirs)
    /\ [][devDirs' = devDirs]_vars

C7_Witness ==
    /\ Completed
    /\ fate[KeyB] = "no_folder" /\ fate[KeyA] = "copied"
    /\ summary[1].skipped = 1

\* the orphans of the run
Orphans == DOMAIN dev0 \ DOMAIN srcFiles

\* C8: remove_orphans calls unlink exactly once for every device key that
\* is not a source key, whatever failed before, and never for a source key;
\* every failed unlink is one error for its key, and on return removed plus
\* the number of errors is the number of orphans.
C8_OrphanDeletion ==
    /\ \A k \in Keys : unlinks[k] <= 1
    /\ \A k \in DOMAIN srcFiles : unlinks[k] = 0 /\ UnlinkErrors(k) = {}
    /\ \A k \in Orphans :
         Cardinality(UnlinkErrors(k))
            = IF unlinks[k] = 1 /\ Exists(devFiles, k) THEN 1 ELSE 0
    /\ removed = Cardinality({k \in Orphans : unlinks[k] = 1 /\ ~Exists(devFiles, k)})
    /\ (pc = "report" \/ Completed) =>
         /\ \A k \in Orphans : unlinks[k] = 1
         /\ total_removed
              + Cardinality({i \in 1..Len(AllErrors) : AllErrors[i][2] = UnlinkError})
              = Cardinality(Orphans)

\* two orphans: the first unlink failed, the second was still done
C8_Witness ==
    /\ pc = "report"
    /\ Cardinality(Orphans) = 2
    /\ total_removed = 1
    /\ \E k \in Orphans : UnlinkErrors(k) # {}
    /\ \E k \in DOMAIN srcFiles : fate[k] \in FailedFates

\* the summary of a completed run: the counts and every failure of the run
CompletedOK ==
    /\ pc = "exited"
    /\ exit_status = <<0>>
    /\ summary # None
    /\ summary[1].copied = Cardinality({k \in Keys : fate[k] = "copied"})
    /\ summary[1].skipped = Cardinality({k \in Keys : fate[k] \in {"no_folder", "synced"}})
    /\ summary[1].removed = Cardinality({k \in Keys : unlinks[k] = 1 /\ ~Exists(devFiles, k)})
    /\ \A k \in Keys :
         /\ fate[k] \in FailedFates =>
              \E i \in 1..Len(summary[1].errors) : summary[1].errors[i] = <<k, CopyError>>
         /\ unlinks[k] = 1 /\ Exists(devFiles, k) =>
              \E i \in 1..Len(summary[1].errors) : summary[1].errors[i] = <<k, UnlinkError>>

\* the steps a run can take: every step of main() but the next run's start
RunStep ==
    \/ Discover \/ Scan \/ Plan \/ Prompt \/ Decide
    \/ SyncFilesEntry \/ SyncFilesReturn
    \/ RemoveOrphansEntry \/ RemoveOrphansReturn \/ Report

\* what is left of a confirmed run: the phases to come and the entries of
\* the running loop
Rank ==
    (CASE pc = "copy" -> 3 [] pc = "delete" -> 2 [] pc = "report" -> 1 [] OTHER -> 0)
        * (Cardinality(Keys) + 1)
    + Cardinality(todo)

\* C9: a confirmed run always reaches its summary and exits with status 0,
\* whichever copies and unlinks fail: until it has exited a step is always
\* possible, every step brings it nearer to the end, and when it has exited
\* the summary holds the counts and every recorded error.
C9_Completion ==
    /\ []((Confirmed /\ pc # "exited") => ENABLED RunStep)
    /\ [][(Confirmed /\ pc # "exited") => Rank' < Rank]_vars
    /\ []((Confirmed /\ pc = "exited") => CompletedOK)

\* C9 as a leads-to, for FairSpec
C9_Terminates == (Confirmed /\ pc # "exited") ~> CompletedOK

\* a run completed with a failed copy and a failed unlink in its summary
C9_Witness ==
    /\ CompletedOK
    /\ \E k \in Keys : fate[k] \in FailedFates
    /\ \E k \in Keys : unlinks[k] = 1 /\ Exists(devFiles, k)
    /\ Len(summary[1].errors) = 2

\* the device holds exactly the source's files, with the source's sizes
InSync(src, dev) ==
    DOMAIN src = DOMAIN dev /\ \A k \in DOMAIN src : src[k] = dev[k]

\* the bytes of the source files the device lacks or holds with another size
BytesNeeded ==
    SumSizes({k \in DOMAIN srcFiles : k \notin DOMAIN dev0 \/ dev0[k] # srcFiles[k]},
             srcFiles)

\* C10: with a device found, the prompt is shown iff the plan is not empty.
\* With an empty plan the run exits 0 without a prompt and touches nothing;
\* with a non-empty plan the prompt is shown whether or not the bytes to
\* copy exceed the free space: that only adds the warning, and a confirmed
\* run goes on to its summary.
C10_Gating ==
    /\ prompted => device_path # None /\ ~InSync(srcFiles, dev0)
    /\ warned => prompted
    /\ prompted => (warned <=> BytesNeeded > free_space)
    /\ pc \in {"answered", "copy", "delete", "report"} => prompted
    /\ (pc = "exited" /\ device_path # None) =>
         /\ prompted <=> ~InSync(srcFiles, dev0)
         /\ ~prompted => exit_status = <<0>> /\ Untouched
         /\ (warned /\ Confirmed) => summary # None

\* the warning was shown, the prompt too, and the confirmed run copied
C10_Witness ==
    /\ Completed /\ warned /\ prompted
    /\ total_copied > 0 /\ BytesNeeded > free_space

\* the place of a phase in the run
PhaseIndex(p) ==
    CASE p = "start" -> 0 [] p = "found" -> 1 [] p = "scanned" -> 2
      [] p = "planned" -> 3 [] p = "answered" -> 4 [] p = "copy" -> 5
      [] p = "delete" -> 6 [] p = "report" -> 7 [] OTHER -> 8

\* sync_files has processed every entry it was called for
CopiesDone ==
    (to_copy \cup to_update # {}) => \A k \in source_mp3s : fate[k] # "none"

\* C11: within a run the phases come only in the order Discover, Scan,
\* Plan, Confirm, Apply-Copy, Apply-Delete, Report, none twice; nothing is
\* scanned without a device, nothing is copied or unlinked before the
\* answer y, no orphan is unlinked before every copy attempt is over, and
\* the summary comes after both apply phases.
C11_PhaseOrder ==
    /\ [][pc' # pc =>
            \/ PhaseIndex(pc') > PhaseIndex(pc)
            \/ pc = "exited" /\ pc' = "start"]_vars
    /\ [][(pc # "exited" /\ scan' # scan) =>
            (pc = "found" /\ device_path # None)]_vars
    /\ [][(pc # "exited" /\ (devFiles' # devFiles \/ fate' # fate \/ unlinks' # unlinks))
            => (Confirmed /\ pc \in {"copy", "delete"})]_vars
    /\ [][(pc # "exited" /\ unlinks' # unlinks) =>
            (pc = "delete" /\ CopiesDone /\ fate' = fate)]_vars
    /\ [][(pc # "exited" /\ fate' # fate) =>
            (pc = "copy" /\ unlinks = NoUnlinks)]_vars
    /\ [][(summary' # summary /\ summary' # None) =>
            (pc = "report" /\ CopiesDone /\ \A k \in to_delete : unlinks[k] = 1)]_vars

\* a run that went through every phase
C11_Witness ==
    Completed /\ total_copied > 0 /\ total_removed > 0 /\ to_skip # {}

\* the entries of the plan's copy and update lists that have no folder
NoFolderPlanned ==
    {k \in to_copy \cup to_update : Parent(k) # <<>> /\ Parent(k) \notin devDirs}

\* C14 as stated: the skipped count of the summary is the number of copy
\* and update entries without a destination folder; entries already up to
\* date are not in it.
C14_Original ==
    Completed => summary[1].skipped = Cardinality(NoFolderPlanned)

\* C14 as the code has it: when sync_files is called, the skipped count is
\* the number of copy and update entries without a destination folder plus
\* the number of entries already up to date; it is 0 when it is not called.
C14_SkippedCount ==
    Completed =>
        summary[1].skipped =
            IF to_copy \cup to_update = {} THEN 0
            ELSE Cardinality(NoFolderPlanned) + Cardinality(to_skip)

\* one entry without a folder and one up to date: the summary says 2 skipped
C14_Witness ==
    /\ Completed
    /\ Cardinality(NoFolderPlanned) = 1 /\ Cardinality(to_skip) = 1
    /\ to_update # {}
    /\ summary[1].skipped = 2

\* the entries sync_files tried to copy
CopyAttempts == {k \in Keys : fate[k] = "copied" \/ fate[k] \in FailedFates}

\* C18: sync_files gets the whole source mapping and decides again per
\* entry, and still tries to copy exactly the planned copy and update
\* entries whose destination folder exists; no entry planned skip is copied
\* or overwritten.
C18_PlanApplyAgree ==
    /\ CopyAttempts \subseteq (to_copy \cup to_update) \ NoFolderPlanned
    /\ \A k \in to_skip : StateOf(devFiles, k) = StateOf(dev0, k)
    /\ (pc \in {"delete", "report"} \/ Completed) =>
           CopyAttempts = (to_copy \cup to_update) \ NoFolderPlanned

C18_Witness ==
    /\ pc = "report"
    /\ to_skip # {} /\ NoFolderPlanned # {}
    /\ CopyAttempts # {} /\ CopyAttempts = to_update

\* C19: whatever fails, every device file whose path is also a source key
\* is still on the device when the run ends; only orphans are removed.
C19_OnlyOrphansRemoved ==
    pc = "exited" =>
        \A k \in DOMAIN dev0 \cap DOMAIN srcFiles : Exists(devFiles, k)

\* the accepted mount points of a tree, as <<user index, mount index>>:
\* directories under a listable user directory with the marker, or with
\* Themes and one of the three wallpapers
Candidates(m) ==
    {c \in (1..Len(m.users)) \X (1..(MaxMounts + 1)) :
        /\ m.users[c[1]].is_dir /\ m.users[c[1]].listable
        /\ c[2] <= Len(m.users[c[1]].mounts)
        /\ LET mp == m.users[c[1]].mounts[c[2]] IN
             /\ mp.is_dir
             /\ \/ mp.marker
                \/ mp.themes /\ mp.wallpapers \cap
                     {"globalWallpaper.jpg", "UsbBackground.jpg",
                      "desktopWallpaper.jpg"} # {}}

\* enumeration order of mount points
Before(c, d) == c[1] < d[1] \/ (c[1] = d[1] /\ c[2] <= d[2])

ReturnedNone == find_result # None /\ ~find_result[1].raised /\ find_result[1].path = None
ReturnedPath == find_result # None /\ ~find_result[1].raised /\ find_result[1].path # None

\* C12: a path find_y1_device returns is a directory two levels below
\* /media with the marker directory, or with Themes and one of the three
\* wallpapers; it is the first such mount point in enumeration order; and
\* the call returns none exactly when no mount point under a listable user
\* directory is accepted.
C12_Acceptance ==
    find_result # None =>
        /\ ReturnedPath =>
              /\ find_result[1].path \in Candidates(media)
              /\ \A c \in Candidates(media) : Before(find_result[1].path, c)
        /\ ReturnedNone <=> Candidates(media) = {}

\* the same for the calls on a /media that can be listed (for reference)
C12_ListedRoot ==
    (find_result # None /\ (media.exists => media.readable)) =>
        /\ ReturnedPath =>
              /\ find_result[1].path \in Candidates(media)
              /\ \A c \in Candidates(media) : Before(find_result[1].path, c)
        /\ ReturnedNone <=> Candidates(media) = {}

\* a Y1 under a user directory that cannot be listed is passed over and
\* the one under the next user directory is returned
C12_ListedWitness ==
    /\ ReturnedPath
    /\ find_result[1].path = <<2, 1>>
    /\ ~media.users[1].listable /\ media.users[1].mounts # <<>>

\* C13: find_y1_device never lets an access error out: it returns none
\* when /media does not exist or cannot be read, and a user directory that
\* cannot be listed counts as empty while the others are still searched.
C13_NoAccessError ==
    find_result # None =>
        /\ ~find_result[1].raised
        /\ (~media.exists \/ ~media.readable) => ReturnedNone
        /\ ReturnedPath => media.users[find_result[1].path[1]].listable
        /\ Candidates(media) # {} => ReturnedPath

\* the names in use whose extension is .mp3 in any letter case
Mp3Names == {"a.mp3", "B.MP3"}

\* the regular files of a listing that have such a name and are not in excl
Mp3FilesOf(l, excl) ==
    {e.name : e \in {x \in l : x.is_file /\ x.name \in Mp3Names /\ x.name \notin excl}}

ExpectedKeys(t, excl) ==
    {<<n>> : n \in Mp3FilesOf(t.root, excl)}
    \cup (IF t.books = None THEN {}
          ELSE {<<"Audiobooks", n>> : n \in Mp3FilesOf(t.books[1], {})})

\* C15: the keys of get_source_mp3s and get_device_mp3s are <name> for the
\* regular files directly under the root with extension .mp3 in any letter
\* case (for the source, those not in the exclusion list) and
\* Audiobooks/<name> for such files directly under root/Audiobooks when it
\* exists.  Other extensions, other subdirectories and deeper files never
\* appear; the exclusion list plays no part in the Audiobooks scan nor in
\* the device scan.
C15_Enumeration ==
    /\ source_keys # None => source_keys[1] = ExpectedKeys(tree, EXCLUDE_FILES)
    /\ device_keys # None => device_keys[1] = ExpectedKeys(tree, {})

\* an upper-case MP3 in the root next to a text file, an MP3 and a
\* directory named like one in Audiobooks, and an MP3 one level further down
C15_Witness ==
    /\ source_keys # None /\ device_keys # None
    /\ source_keys[1] = {<<"B.MP3">>, <<"Audiobooks", "a.mp3">>}
    /\ device_keys[1] = source_keys[1]
    /\ Cardinality(tree.root) = 2 /\ Cardinality(tree.books[1]) = 2
    /\ tree.deep # {}

\* the sync directory is configured
Configured ==
    /\ config.sync_directory # None
    /\ config.sync_directory[1] \notin {"", "/path/to/device"}

\* the audio files of the download directory when sync_to_device looked
AudioNames == {"a.mp3", "e.m4a"}
AudioInDownloads ==
    IF fs[DOWNLOADS] = None THEN {} ELSE fs[DOWNLOADS][1] \cap AudioNames

\* C16: with a configured sync directory sync_to_device returns True
\* exactly when the download directory exists, holds an audio file and
\* every audio file was copied; a failed copy does not keep the remaining
\* files from being tried; after True every audio file of the download
\* directory is in the sync directory, which exists even if it did not
\* before; an empty download directory gives False.
C16_SyncResult ==
    (Configured /\ sync_result # None) =>
        /\ sync_result[1] <=>
              /\ fs[DOWNLOADS] # None
              /\ AudioInDownloads # {}
              /\ copy_ok = AudioInDownloads
        /\ (fs[DOWNLOADS] # None /\ AudioInDownloads # {}) =>
              copy_tried = AudioInDownloads
        /\ sync_result[1] =>
              /\ fs[sync_dir] # None
              /\ AudioInDownloads \subseteq fs[sync_dir][1]
        /\ (fs[DOWNLOADS] # None /\ fs[DOWNLOADS][1] = {}) => ~sync_result[1]

\* both audio files copied into a player directory that did not exist, a
\* text file and an upper-case name left behind
C16_Witness ==
    /\ Configured /\ sync_result = <<TRUE>>
    /\ fs0[PLAYER] = None
    /\ fs[PLAYER] = <<{"a.mp3", "e.m4a"}>>
    /\ fs[DOWNLOADS] = <<{"a.mp3", "e.m4a", "B.MP3", "c.txt"}>>

\* the first copy failed and the second was still made
C16_FailureWitness ==
    /\ Configured /\ sync_result = <<FALSE>>
    /\ copy_ok = {"e.m4a"}
    /\ copy_tried = {"a.mp3", "e.m4a"}
    /\ "e.m4a" \in fs[PLAYER][1]

\* the URLs of the config, in order
ConfigUrls == IF config.urls = None THEN <<>> ELSE config.urls[1]

\* C17: download_all hands every URL of the list to download_audio once
\* and in list order, whatever failed before; download_audio returns True
\* when the downloader completes and False when it raises; download_all
\* returns the number of True results, between 0 and the number of URLs,
\* and 0 with no download tried for an empty list.
C17_DownloadAll ==
    /\ Len(dl_log) <= Len(ConfigUrls)
    /\ \A i \in 1..Len(dl_log) :
          /\ dl_log[i].url = ConfigUrls[i]
          /\ dl_log[i].returned <=> dl_log[i].outcome = "completed"
    /\ download_result # None =>
          /\ Len(dl_log) = Len(ConfigUrls)
          /\ download_result[1] = Cardinality({i \in 1..Len(dl_log) : dl_log[i].returned})
          /\ 0 <= download_result[1] /\ download_result[1] <= Len(ConfigUrls)
          /\ ConfigUrls = <<>> => (download_result[1] = 0 /\ dl_log = <<>>)

\* the first download raised, the second was made and counted
C17_Witness ==
    /\ download_result = <<1>>
    /\ Len(dl_log) = 2
    /\ dl_log[1].outcome = "raised" /\ ~dl_log[1].returned
    /\ dl_log[2].outcome = "completed"

\* C20: when sync_directory is the placeholder, the empty string or absent,
\* sync_to_device returns False, creates no directory and copies no file.
C20_Unconfigured ==
    (~Configured /\ rip_pc \in {"syncing", "done"}) =>
        /\ sync_result # None /\ ~sync_result[1]
        /\ \A d \in Dirs \ {DOWNLOADS} : fs[d] = fs0[d]
        /\ copy_tried = {}

====
